---- MODULE Spec2Model ----
(***************************************************************************)
(* The result cache of subtitle-studio (src-tauri/src/cache/mod.rs) and    *)
(* the commands that use it (src-tauri/src/commands/ai.rs), as a state     *)
(* machine.  Every Tauri command is an async fn run on a multi-threaded    *)
(* runtime, so several calls run in parallel; a step of the model is one   *)
(* lock operation, one file-system call or one clock read of one call.     *)
(***************************************************************************)
EXTENDS Integers, Sequences, FiniteSets, TLC

\* ------------------------------------------------------------------ bounds
\* Clock jumps the model may take in one behaviour.
MaxTicks == 2
\* Entries add_glossary_entry may pile up in a glossary.
MaxGlossary == 1

\* --------------------------------------------------------- program constants
\* `num_days() > 30` (transcription and translation entries).
MaxAgeDays == 30
\* `num_minutes() > 60` (project snapshots).
MaxAgeMinutes == 60

\* ------------------------------------------------------------------ values
Tasks == {"t1", "t2"}
NoTask == "-"
Digests == {"d1", "d2"}
NoKey == "-"

\* Seconds in chrono's units.
Minute == 60
Hour == 60 * Minute
Day == 24 * Hour
\* The jumps of the wall clock between two steps.
TickDeltas == {Hour, 30 * Day}

\* Result<T, String> and Option<T>.
Ok(v) == [ok |-> TRUE, val |-> v]
Err(e) == [ok |-> FALSE, err |-> e]
Some(v) == [some |-> TRUE, v |-> v]
None == [some |-> FALSE]
Pending == [pending |-> TRUE]
NoCommand == [name |-> "-", cpc |-> "-", computed |-> None, result |-> Pending]
NoArg == << >>

\* SubtitleSegment, times in milliseconds.
Segment(i, s, e, txt) ==
    [id |-> i, start |-> s, end |-> e, duration |-> e - s, text |-> txt,
     translation |-> None, flags |-> None]
\* A String is the sequence of its characters.
SegsA == << Segment(1, 0, 1500, << "h", "i" >>) >>
SegsB == << Segment(1, 0, 1500, << "h", "i" >>),
           Segment(2, 1500, 4000, << "\"", "o" >>) >>
SegLists == {SegsA, SegsB}

\* chrono::DateTime::to_rfc3339 and parse_from_rfc3339: the text of an
\* instant, and the instant of a text when the text is a timestamp.
to_rfc3339(t) == [rfc3339 |-> TRUE, t |-> t]
BadTimestamp == [rfc3339 |-> FALSE]
parse_from_rfc3339(s) == IF s.rfc3339 THEN Ok(s.t) ELSE Err("chrono parse")

\* Duration::num_days and num_minutes: whole units, truncated toward zero.
TruncDiv(a, b) == IF a >= 0 THEN a \div b ELSE -((-a) \div b)
num_days(d) == TruncDiv(d, Day)
num_minutes(d) == TruncDiv(d, Minute)

\* A path of the cache directory, and what a path holds: nothing, or a
\* text.  fs::write opens with O_TRUNC and then writes, so a file is seen
\* empty between the two; the empty text is not JSON.
Absent == [exists |-> FALSE]
Truncated == [exists |-> TRUE, json |-> FALSE]
\* serde_json::to_string of a value, and serde_json::from_str into a struct
\* with the fields `fields` (any other text is an error).
to_string(v) == [exists |-> TRUE, json |-> TRUE, value |-> v]
from_str(c, fields) ==
    IF c.json /\ DOMAIN c.value = fields THEN Ok(c.value) ELSE Err("serde_json")

TranscriptionCacheEntry(h, segs, at) ==
    [file_hash |-> h, segments |-> segs, created_at |-> at]
TranscriptionFields == {"file_hash", "segments", "created_at"}
TranscribeFile(h) == << "transcribe", h >>

\* TranslationResult lists and the translation entry.
CacheKeys == {"k1"}
TransA == << [id |-> 1, translated_text |-> "salut"] >>
TransB == << [id |-> 1, translated_text |-> "salut"],
             [id |-> 2, translated_text |-> "toi"] >>
TransLists == {TransA, TransB}
TranslationCacheEntry(k, tr, at) ==
    [cache_key |-> k, translations |-> tr, created_at |-> at]
TranslationFields == {"cache_key", "translations", "created_at"}
TranslateFile(k) == << "translate", k >>

\* Project, with the fields the cache reads; updated_at is any String.
ProjectIds == {"p1"}
Project(id, glossary, updated) ==
    [id |-> id, name |-> "demo", path |-> << "docs", "demo" >>,
     target_language |-> "French", files |-> << >>, glossary |-> glossary,
     created_at |-> to_rfc3339(0), updated_at |-> updated]
ProjectFields == {"id", "name", "path", "target_language", "files",
                  "glossary", "created_at", "updated_at"}
ProjectFile(id) == << "project", id >>
\* How far in the past the updated_at of a stored snapshot lies.
SnapshotAges == {0, 60 * Minute + 30, 61 * Minute}
SnapshotStamps(n) == {to_rfc3339(n - a) : a \in SnapshotAges} \cup {BadTimestamp}

\* The project document <project dir>/project.json and the list
\* <app data>/subtitle-studio/recent_projects.json.
ProjectJson(id) == << "project.json", id >>
RecentFile == << "recent_projects.json", "-" >>

FileNames ==
    {TranscribeFile(h) : h \in Digests} \cup {TranslateFile(k) : k \in CacheKeys}
        \cup {ProjectFile(id) : id \in ProjectIds}
        \cup {ProjectJson(id) : id \in ProjectIds} \cup {RecentFile}

VARIABLES
    now,            \* chrono::Utc::now(), in seconds
    ticks,          \* clock jumps taken
    memory_cache,   \* Cache::memory_cache: digest -> Option<Vec<SubtitleSegment>>
    lock,           \* the task holding the Mutex of memory_cache
    files,          \* the cache directory
    pc,             \* each call's position
    op,             \* the Cache method a task runs
    key,            \* its file_hash / cache_key / project_id argument
    arg,            \* its payload argument
    content,        \* its local `content` (a get) or `json` (a set)
    nowv,           \* its local `now`
    result,         \* what the method returned
    lastSet,        \* history: the segments of the set_transcription that
                    \* returned Ok last for a digest, while nothing else has
                    \* written the digest's entry since
    everSet,        \* history: a set_transcription of the digest has begun
    cmd             \* the Tauri command a task runs: its name, its position,
                    \* the value parsed from the remote response, its result

vars == << now, ticks, memory_cache, lock, files, pc, op, key, arg, content,
           nowv, result, lastSet, everSet, cmd >>

taskVars == << pc, op, key, arg, content, nowv, result >>

Init ==
    /\ now = 0
    /\ ticks = 0
    /\ memory_cache = [h \in Digests |-> None]
    /\ lock = NoTask
    /\ files = [f \in FileNames |-> Absent]
    /\ pc = [t \in Tasks |-> "idle"]
    /\ op = [t \in Tasks |-> "-"]
    /\ key = [t \in Tasks |-> NoKey]
    /\ arg = [t \in Tasks |-> NoArg]
    /\ content = [t \in Tasks |-> Absent]
    /\ nowv = [t \in Tasks |-> 0]
    /\ result = [t \in Tasks |-> Pending]
    /\ lastSet = [h \in Digests |-> None]
    /\ everSet = [h \in Digests |-> FALSE]
    /\ cmd = [t \in Tasks |-> NoCommand]

\* ---------------------------------------------------------------- helpers
\* A call begins: its arguments are bound and its locals are fresh.
Begin(t, method, k, a, first) ==
    /\ pc[t] \in {"idle", "done"}
    /\ pc' = [pc EXCEPT ![t] = first]
    /\ op' = [op EXCEPT ![t] = method]
    /\ key' = [key EXCEPT ![t] = k]
    /\ arg' = [arg EXCEPT ![t] = a]
    /\ result' = [result EXCEPT ![t] = Pending]

\* A call returns r.
Finish(t, r) ==
    /\ pc' = [pc EXCEPT ![t] = "done"]
    /\ result' = [result EXCEPT ![t] = r]

Goto(t, next) ==
    /\ pc' = [pc EXCEPT ![t] = next]
    /\ UNCHANGED result

\* `self.memory_cache.lock()`: blocks while another task holds the Mutex.
\* No code runs a panic while it holds the guard, so the Mutex is never
\* poisoned and lock() never returns Err.
Acquire(t, at, next) ==
    /\ pc[t] = at
    /\ lock = NoTask
    /\ lock' = t
    /\ Goto(t, next)
    /\ UNCHANGED << cmd, now, ticks, memory_cache, files, op, key, arg, content,
                    nowv, lastSet, everSet >>

\* The 30-day policy of get_transcription and get_translation.
EntryExpired(n, created) == num_days(n - created) > MaxAgeDays

\* History: something other than a returning set wrote digest h's entry.
Touched(h) == lastSet' = [lastSet EXCEPT ![h] = None]

\* ------------------------------------------------- Cache::get_transcription
GetTranscription(t, h) ==
    /\ Begin(t, "get_transcription", h, NoArg, "gt_lock1")
    /\ content' = [content EXCEPT ![t] = Absent]
    /\ nowv' = [nowv EXCEPT ![t] = 0]
    /\ UNCHANGED << now, ticks, memory_cache, lock, files, lastSet, everSet >>

GetTranscriptionLock1(t) == Acquire(t, "gt_lock1", "gt_check")

\* The lookup with the memory tier distrusted: a hit goes on to the file.
GetTranscriptionCheckDistrust(t) ==
    /\ pc[t] = "gt_check"
    /\ lock' = NoTask
    /\ Goto(t, "gt_exists")
    /\ UNCHANGED << cmd, now, ticks, memory_cache, files, op, key, arg, content,
                    nowv, lastSet, everSet >>

\* The lookup whose guard outlives the block: a miss goes on to the file
\* with the Mutex held.
GetTranscriptionCheckHolding(t) ==
    /\ pc[t] = "gt_check"
    /\ IF memory_cache[key[t]].some
       THEN lock' = NoTask /\ Finish(t, Ok(Some(memory_cache[key[t]].v)))
       ELSE UNCHANGED lock /\ Goto(t, "gt_exists")
    /\ UNCHANGED << cmd, now, ticks, memory_cache, files, op, key, arg, content,
                    nowv, lastSet, everSet >>

\* Lines 42-45: the lookup under the guard; the guard drops at the end of
\* the block or at the return.
GetTranscriptionCheck(t) ==
    /\ pc[t] = "gt_check"
    /\ lock' = NoTask
    /\ IF memory_cache[key[t]].some
       THEN Finish(t, Ok(Some(memory_cache[key[t]].v)))
       ELSE Goto(t, "gt_exists")
    /\ UNCHANGED << cmd, now, ticks, memory_cache, files, op, key, arg, content,
                    nowv, lastSet, everSet >>

\* Lines 49-51.
GetTranscriptionExists(t) ==
    /\ pc[t] = "gt_exists"
    /\ IF files[TranscribeFile(key[t])].exists
       THEN Goto(t, "gt_read")
       ELSE Finish(t, Ok(None))
    /\ UNCHANGED << cmd, now, ticks, memory_cache, lock, files, op, key, arg,
                    content, nowv, lastSet, everSet >>

\* Lines 53-63: read, deserialize, read the clock, parse created_at, compare.
GetTranscriptionRead(t) ==
    /\ pc[t] = "gt_read"
    /\ LET c == files[TranscribeFile(key[t])]
           e == from_str(c, TranscriptionFields)
           created == parse_from_rfc3339(e.val.created_at)
       IN  /\ content' = [content EXCEPT ![t] = c]
           /\ nowv' = [nowv EXCEPT ![t] = now]
           /\ IF ~c.exists THEN Finish(t, Err("io: not found"))
              ELSE IF ~e.ok THEN Finish(t, Err(e.err))
              ELSE IF ~created.ok THEN Finish(t, Err(created.err))
              ELSE IF EntryExpired(now, created.val) THEN Goto(t, "gt_remove")
              ELSE Goto(t, "gt_lock2")
    /\ UNCHANGED << cmd, now, ticks, memory_cache, lock, files, op, key, arg,
                    lastSet, everSet >>

\* Lines 61-62: `fs::remove_file(&cache_file).ok()`.
GetTranscriptionRemove(t) ==
    /\ pc[t] = "gt_remove"
    /\ files' = [files EXCEPT ![TranscribeFile(key[t])] = Absent]
    /\ Touched(key[t])
    /\ Finish(t, Ok(None))
    /\ UNCHANGED << cmd, everSet, now, ticks, memory_cache, lock, op, key, arg, content,
                    nowv >>

GetTranscriptionLock2(t) == Acquire(t, "gt_lock2", "gt_insert")

\* The durable hit returned without populating the memory index.
GetTranscriptionInsertForgotten(t) ==
    /\ pc[t] = "gt_insert"
    /\ lock' = NoTask
    /\ Finish(t, Ok(Some(content[t].value.segments)))
    /\ UNCHANGED << cmd, now, ticks, memory_cache, files, op, key, arg, content,
                    nowv, lastSet, everSet >>

\* Lines 67-70.
GetTranscriptionInsert(t) ==
    /\ pc[t] = "gt_insert"
    /\ memory_cache' =
           [memory_cache EXCEPT ![key[t]] = Some(content[t].value.segments)]
    /\ lock' = NoTask
    /\ Touched(key[t])
    /\ Finish(t, Ok(Some(content[t].value.segments)))
    /\ UNCHANGED << cmd, everSet, now, ticks, files, op, key, arg, content, nowv >>

\* ------------------------------------------------- Cache::set_transcription
\* Lines 74-82: the entry is stamped and serialized before the write.
SetTranscription(t, h, segs) ==
    /\ Begin(t, "set_transcription", h, segs, "st_open")
    /\ content' = [content EXCEPT ![t] =
           to_string(TranscriptionCacheEntry(h, segs, to_rfc3339(now)))]
    /\ nowv' = [nowv EXCEPT ![t] = 0]
    /\ everSet' = [everSet EXCEPT ![h] = TRUE]
    /\ UNCHANGED << now, ticks, memory_cache, lock, files, lastSet >>

\* Line 83, fs::write: the open truncates the file, or fails.
WriteOpen(t, at, f, next) ==
    /\ pc[t] = at
    /\ \/ /\ files' = [files EXCEPT ![f] = Truncated]
          /\ Goto(t, next)
       \/ /\ UNCHANGED files
          /\ Finish(t, Err("io: open"))

\* Line 83, fs::write: the text is written, or the write fails.
WriteAll(t, at, f, next) ==
    /\ pc[t] = at
    /\ \/ /\ files' = [files EXCEPT ![f] = content[t]]
          /\ Goto(t, next)
       \/ /\ UNCHANGED files
          /\ Finish(t, Err("io: write"))

SetTranscriptionOpen(t) ==
    /\ WriteOpen(t, "st_open", TranscribeFile(key[t]), "st_write")
    /\ lastSet' = [lastSet EXCEPT ![key[t]] =
                      IF files'[TranscribeFile(key[t])] = files[TranscribeFile(key[t])]
                      THEN @ ELSE None]
    /\ UNCHANGED << cmd, everSet, now, ticks, memory_cache, lock, op, key, arg, content,
                    nowv >>

\* The write whose failure is swallowed: the call goes on to the insert.
SetTranscriptionWriteUnchecked(t) ==
    /\ pc[t] = "st_write"
    /\ \/ files' = [files EXCEPT ![TranscribeFile(key[t])] = content[t]]
       \/ UNCHANGED files
    /\ Goto(t, "st_lock")
    /\ lastSet' = [lastSet EXCEPT ![key[t]] =
                      IF files'[TranscribeFile(key[t])] = files[TranscribeFile(key[t])]
                      THEN @ ELSE None]
    /\ UNCHANGED << cmd, everSet, now, ticks, memory_cache, lock, op, key, arg, content,
                    nowv >>

SetTranscriptionWrite(t) ==
    /\ WriteAll(t, "st_write", TranscribeFile(key[t]), "st_lock")
    /\ lastSet' = [lastSet EXCEPT ![key[t]] =
                      IF files'[TranscribeFile(key[t])] = files[TranscribeFile(key[t])]
                      THEN @ ELSE None]
    /\ UNCHANGED << cmd, everSet, now, ticks, memory_cache, lock, op, key, arg, content,
                    nowv >>

SetTranscriptionLock(t) == Acquire(t, "st_lock", "st_insert")

\* The set that returns Ok with the memory index left as it was.
SetTranscriptionInsertForgotten(t) ==
    /\ pc[t] = "st_insert"
    /\ lock' = NoTask
    /\ lastSet' = [lastSet EXCEPT ![key[t]] = Some(arg[t])]
    /\ Finish(t, Ok("unit"))
    /\ UNCHANGED << cmd, everSet, now, ticks, memory_cache, files, op, key, arg,
                    content, nowv >>

\* The insert under one fixed key, whatever the digest of the call.
SetTranscriptionInsertWrongKey(t) ==
    /\ pc[t] = "st_insert"
    /\ memory_cache' = [memory_cache EXCEPT !["d1"] = Some(arg[t])]
    /\ lock' = NoTask
    /\ lastSet' = [lastSet EXCEPT ![key[t]] = Some(arg[t])]
    /\ Finish(t, Ok("unit"))
    /\ UNCHANGED << cmd, everSet, now, ticks, files, op, key, arg, content, nowv >>

\* Lines 87-90.
SetTranscriptionInsert(t) ==
    /\ pc[t] = "st_insert"
    /\ memory_cache' = [memory_cache EXCEPT ![key[t]] = Some(arg[t])]
    /\ lock' = NoTask
    /\ lastSet' = [lastSet EXCEPT ![key[t]] = Some(arg[t])]
    /\ Finish(t, Ok("unit"))
    /\ UNCHANGED << cmd, everSet, now, ticks, files, op, key, arg, content, nowv >>

\* --------------------------------------------------- Cache::get_translation
GetTranslation(t, k) ==
    /\ Begin(t, "get_translation", k, NoArg, "gl_exists")
    /\ content' = [content EXCEPT ![t] = Absent]
    /\ nowv' = [nowv EXCEPT ![t] = 0]
    /\ UNCHANGED << now, ticks, memory_cache, lock, files, lastSet, everSet >>

\* Lines 96-98.
GetTranslationExists(t) ==
    /\ pc[t] = "gl_exists"
    /\ IF files[TranslateFile(key[t])].exists
       THEN Goto(t, "gl_read")
       ELSE Finish(t, Ok(None))
    /\ UNCHANGED << cmd, now, ticks, memory_cache, lock, files, op, key, arg,
                    content, nowv, lastSet, everSet >>

\* Lines 100-112.
GetTranslationRead(t) ==
    /\ pc[t] = "gl_read"
    /\ LET c == files[TranslateFile(key[t])]
           e == from_str(c, TranslationFields)
           created == parse_from_rfc3339(e.val.created_at)
       IN  /\ content' = [content EXCEPT ![t] = c]
           /\ nowv' = [nowv EXCEPT ![t] = now]
           /\ IF ~c.exists THEN Finish(t, Err("io: not found"))
              ELSE IF ~e.ok THEN Finish(t, Err(e.err))
              ELSE IF ~created.ok THEN Finish(t, Err(created.err))
              ELSE IF EntryExpired(now, created.val) THEN Goto(t, "gl_remove")
              ELSE Finish(t, Ok(Some(e.val.translations)))
    /\ UNCHANGED << cmd, now, ticks, memory_cache, lock, files, op, key, arg,
                    lastSet, everSet >>

\* Lines 108-109.
GetTranslationRemove(t) ==
    /\ pc[t] = "gl_remove"
    /\ files' = [files EXCEPT ![TranslateFile(key[t])] = Absent]
    /\ Finish(t, Ok(None))
    /\ UNCHANGED << cmd, now, ticks, memory_cache, lock, op, key, arg, content,
                    nowv, lastSet, everSet >>

\* --------------------------------------------------- Cache::set_translation
\* Lines 116-124.
SetTranslation(t, k, tr) ==
    /\ Begin(t, "set_translation", k, tr, "sl_open")
    /\ content' = [content EXCEPT ![t] =
           to_string(TranslationCacheEntry(k, tr, to_rfc3339(now)))]
    /\ nowv' = [nowv EXCEPT ![t] = 0]
    /\ UNCHANGED << now, ticks, memory_cache, lock, files, lastSet, everSet >>

SetTranslationOpen(t) ==
    /\ WriteOpen(t, "sl_open", TranslateFile(key[t]), "sl_write")
    /\ UNCHANGED << cmd, now, ticks, memory_cache, lock, op, key, arg, content,
                    nowv, lastSet, everSet >>

\* The translation write that also empties the memory index.
SetTranslationWriteInvalidating(t) ==
    /\ pc[t] = "sl_write"
    /\ \/ /\ files' = [files EXCEPT ![TranslateFile(key[t])] = content[t]]
          /\ memory_cache' = [h \in Digests |-> None]
          /\ Finish(t, Ok("unit"))
       \/ /\ UNCHANGED << files, memory_cache >>
          /\ Finish(t, Err("io: write"))
    /\ UNCHANGED << cmd, now, ticks, lock, op, key, arg, content, nowv, lastSet,
                    everSet >>

\* Lines 125-127.
SetTranslationWrite(t) ==
    /\ pc[t] = "sl_write"
    /\ \/ /\ files' = [files EXCEPT ![TranslateFile(key[t])] = content[t]]
          /\ Finish(t, Ok("unit"))
       \/ /\ UNCHANGED files
          /\ Finish(t, Err("io: write"))
    /\ UNCHANGED << cmd, now, ticks, memory_cache, lock, op, key, arg, content,
                    nowv, lastSet, everSet >>

\* ------------------------------------------- Cache::cache_project_structure
\* Lines 131-133.
CacheProjectStructure(t, id, project) ==
    /\ Begin(t, "cache_project_structure", id, project, "cp_open")
    /\ content' = [content EXCEPT ![t] = to_string(project)]
    /\ nowv' = [nowv EXCEPT ![t] = 0]
    /\ UNCHANGED << now, ticks, memory_cache, lock, files, lastSet, everSet >>

CacheProjectStructureOpen(t) ==
    /\ WriteOpen(t, "cp_open", ProjectFile(key[t]), "cp_write")
    /\ UNCHANGED << cmd, now, ticks, memory_cache, lock, op, key, arg, content,
                    nowv, lastSet, everSet >>

\* Lines 134-136.
CacheProjectStructureWrite(t) ==
    /\ pc[t] = "cp_write"
    /\ \/ /\ files' = [files EXCEPT ![ProjectFile(key[t])] = content[t]]
          /\ Finish(t, Ok("unit"))
       \/ /\ UNCHANGED files
          /\ Finish(t, Err("io: write"))
    /\ UNCHANGED << cmd, now, ticks, memory_cache, lock, op, key, arg, content,
                    nowv, lastSet, everSet >>

\* --------------------------------------------- Cache::get_project_structure
\* The snapshot judged by the 30-day policy of the other entries.
ProjectExpiredByDays(n, updated) == num_days(n - updated) > MaxAgeDays

\* The 60-minute policy, against the snapshot's own updated_at.
ProjectExpired(n, updated) == num_minutes(n - updated) > MaxAgeMinutes

GetProjectStructure(t, id) ==
    /\ Begin(t, "get_project_structure", id, NoArg, "gp_exists")
    /\ content' = [content EXCEPT ![t] = Absent]
    /\ nowv' = [nowv EXCEPT ![t] = 0]
    /\ UNCHANGED << now, ticks, memory_cache, lock, files, lastSet, everSet >>

\* Lines 142-144.
GetProjectStructureExists(t) ==
    /\ pc[t] = "gp_exists"
    /\ IF files[ProjectFile(key[t])].exists
       THEN Goto(t, "gp_read")
       ELSE Finish(t, Ok(None))
    /\ UNCHANGED << cmd, now, ticks, memory_cache, lock, files, op, key, arg,
                    content, nowv, lastSet, everSet >>

\* Lines 146-157: an expired snapshot is reported absent and left on disk.
GetProjectStructureRead(t) ==
    /\ pc[t] = "gp_read"
    /\ LET c == files[ProjectFile(key[t])]
           e == from_str(c, ProjectFields)
           updated == parse_from_rfc3339(e.val.updated_at)
       IN  /\ content' = [content EXCEPT ![t] = c]
           /\ nowv' = [nowv EXCEPT ![t] = now]
           /\ IF ~c.exists THEN Finish(t, Err("io: not found"))
              ELSE IF ~e.ok THEN Finish(t, Err(e.err))
              ELSE IF ~updated.ok THEN Finish(t, Err(updated.err))
              ELSE IF ProjectExpired(now, updated.val) THEN Finish(t, Ok(None))
              ELSE Finish(t, Ok(Some(e.val)))
    /\ UNCHANGED << cmd, now, ticks, memory_cache, lock, files, op, key, arg,
                    lastSet, everSet >>

\* ------------------------------------------------- commands::ai (ai.rs)
cacheVars == << now, ticks, memory_cache, lock, files, lastSet, everSet >>

\* The media file of a request and Cache::calculate_file_hash of it; the
\* translation request and Cache::generate_translation_cache_key of it.
MediaPaths == {"/media/a.mp3"}
calculate_file_hash(path) == Ok("d1")

\* serde_json::to_string, character by character.  A number is written in
\* decimal; an f64 (here a whole number of milliseconds, held in seconds by
\* the program) always with a fraction; a String between quotes, with the
\* quote and the backslash escaped; None as null; a struct as its fields in
\* declaration order; a Vec between brackets.
DigitChars == << "0", "1", "2", "3", "4", "5", "6", "7", "8", "9" >>
RECURSIVE Digits(_)
Digits(n) ==
    IF n < 10 THEN << DigitChars[n + 1] >>
    ELSE Digits(n \div 10) \o << DigitChars[(n % 10) + 1] >>
RECURSIVE Padded(_, _)
Padded(r, w) ==
    IF w = 0 THEN << >> ELSE Padded(r \div 10, w - 1) \o << DigitChars[(r % 10) + 1] >>
RECURSIVE Fraction(_, _)
Fraction(r, w) ==
    IF w > 1 /\ r % 10 = 0 THEN Fraction(r \div 10, w - 1) ELSE Padded(r, w)
JsonF64(ms) == Digits(ms \div 1000) \o << "." >> \o Fraction(ms % 1000, 3)
RECURSIVE Escaped(_)
Escaped(str) ==
    IF str = << >> THEN << >>
    ELSE (IF Head(str) \in {"\"", "\\"} THEN << "\\", Head(str) >>
          ELSE << Head(str) >>) \o Escaped(Tail(str))
JsonString(str) == << "\"" >> \o Escaped(str) \o << "\"" >>
JsonOptionString(o) == IF o.some THEN JsonString(o.v) ELSE << "null" >>
JsonSegment(g) ==
    << "{", "\"id\":" >> \o Digits(g.id)
       \o << ",", "\"start\":" >> \o JsonF64(g.start)
       \o << ",", "\"end\":" >> \o JsonF64(g.end)
       \o << ",", "\"duration\":" >> \o JsonF64(g.duration)
       \o << ",", "\"text\":" >> \o JsonString(g.text)
       \o << ",", "\"translation\":" >> \o JsonOptionString(g.translation)
       \o << ",", "\"flags\":", "null", "}" >>
JsonGlossaryEntry(g) ==
    << "{", "\"id\":" >> \o JsonString(g.id)
       \o << ",", "\"source\":" >> \o JsonString(g.source)
       \o << ",", "\"target\":" >> \o JsonString(g.target)
       \o << ",", "\"description\":" >> \o JsonOptionString(g.description)
       \o << ",", "\"context\":" >> \o JsonOptionString(g.context)
       \o << "}" >>
RECURSIVE JsonSegmentItems(_)
JsonSegmentItems(segs) ==
    IF segs = << >> THEN << >>
    ELSE IF Len(segs) = 1 THEN JsonSegment(segs[1])
    ELSE JsonSegment(segs[1]) \o << "," >> \o JsonSegmentItems(Tail(segs))
JsonSegments(segs) == << "[" >> \o JsonSegmentItems(segs) \o << "]" >>
RECURSIVE JsonGlossaryItems(_)
JsonGlossaryItems(glossary) ==
    IF glossary = << >> THEN << >>
    ELSE IF Len(glossary) = 1 THEN JsonGlossaryEntry(glossary[1])
    ELSE JsonGlossaryEntry(glossary[1]) \o << "," >>
             \o JsonGlossaryItems(Tail(glossary))
JsonGlossary(glossary) == << "[" >> \o JsonGlossaryItems(glossary) \o << "]" >>

\* The requests of the key derivation: segment lists, glossaries, target
\* languages and style prompts.
GlossaryEntry(id, source, target) ==
    [id |-> id, source |-> source, target |-> target,
     description |-> None, context |-> None]
Glossaries == {<< >>, << GlossaryEntry(<< "g" >>, << "c", "a", "t" >>, << "c", "h", "a", "t" >>) >>}
KeySegLists == {<< >>, SegsA, SegsB}
French == << "f", "r" >>
Formal == << "x" >>
Languages == {French, << "f" >>, << "d", "e" >>}
Styles == {Formal, << "r", "x" >>, << >>}

\* The hash with the style prompt left out of its input.
HashInputWithoutStyle(segs, glossary, target_language, style_prompt) ==
    JsonSegments(segs) \o JsonGlossary(glossary) \o target_language

\* Lines 183-187: the bytes the hasher is fed, in the order of the updates.
HashInput(segs, glossary, target_language, style_prompt) ==
    JsonSegments(segs) \o JsonGlossary(glossary) \o target_language
        \o style_prompt

\* Sha256 and format!("{:x}", ..): the digest of a byte sequence, distinct
\* byte sequences having distinct digests.
Sha256Hex(bytes) == [sha256 |-> bytes]

generate_translation_cache_key(segs, glossary, target_language, style_prompt) ==
    Ok(Sha256Hex(HashInput(segs, glossary, target_language, style_prompt)))

\* The one translation request the command model sends, and the name the
\* model gives its digest in file names.
CacheKeyName(digest) ==
    IF digest = Sha256Hex(HashInput(SegsA, << >>, French, Formal))
    THEN "k1" ELSE "k0"

\* A call of generate_translation_cache_key: a pure function, one step.
GenerateTranslationCacheKey(t, segs, glossary, target_language, style_prompt) ==
    /\ pc[t] \in {"idle", "done"}
    /\ pc' = [pc EXCEPT ![t] = "done"]
    /\ op' = [op EXCEPT ![t] = "generate_translation_cache_key"]
    /\ key' = [key EXCEPT ![t] = NoKey]
    /\ arg' = [arg EXCEPT ![t] =
                  [segments |-> segs, glossary |-> glossary,
                   target_language |-> target_language,
                   style_prompt |-> style_prompt]]
    /\ content' = [content EXCEPT ![t] = Absent]
    /\ nowv' = [nowv EXCEPT ![t] = 0]
    /\ result' = [result EXCEPT ![t] =
                     generate_translation_cache_key(segs, glossary,
                                                    target_language, style_prompt)]
    /\ UNCHANGED << cacheVars, cmd >>

\* A command returns r to the frontend.
CommandReturns(t, r) ==
    cmd' = [cmd EXCEPT ![t].cpc = "returned", ![t].result = r]
CommandFree(t) == cmd[t].cpc \in {"-", "returned"} /\ pc[t] \in {"idle", "done"}

\* transcribe_audio, lines 58-63: hash the file, ask the cache.
TranscribeAudio(t, path) ==
    /\ CommandFree(t)
    /\ GetTranscription(t, calculate_file_hash(path).val)
    /\ cmd' = [cmd EXCEPT ![t] =
                  [name |-> "transcribe_audio", cpc |-> "ta_get",
                   computed |-> None, result |-> Pending]]

\* The command that goes to the remote service whatever the cache said.
TranscribeAudioGotIgnored(t) ==
    /\ cmd[t].cpc = "ta_get"
    /\ pc[t] = "done"
    /\ IF ~result[t].ok THEN CommandReturns(t, Err(result[t].err))
       ELSE cmd' = [cmd EXCEPT ![t].cpc = "ta_remote"]
    /\ UNCHANGED << cacheVars, taskVars >>

\* Lines 63-66: `cache.get_transcription(&file_hash).await?`.
TranscribeAudioGot(t) ==
    /\ cmd[t].cpc = "ta_get"
    /\ pc[t] = "done"
    /\ IF ~result[t].ok THEN CommandReturns(t, Err(result[t].err))
       ELSE IF result[t].val.some THEN CommandReturns(t, Ok(result[t].val.v))
       ELSE cmd' = [cmd EXCEPT ![t].cpc = "ta_remote"]
    /\ UNCHANGED << cacheVars, taskVars >>

\* Lines 68-103: the API key, the upload, the response and
\* parse_whisper_response; any of them may fail.
TranscribeAudioRemoteFails(t) ==
    /\ cmd[t].cpc = "ta_remote"
    /\ CommandReturns(t, Err("OpenAI"))
    /\ UNCHANGED << cacheVars, taskVars >>

\* Lines 102-105: the segments are parsed and handed to set_transcription.
TranscribeAudioRemote(t, segs) ==
    /\ cmd[t].cpc = "ta_remote"
    /\ SetTranscription(t, key[t], segs)
    /\ cmd' = [cmd EXCEPT ![t].cpc = "ta_set", ![t].computed = Some(segs)]

\* Lines 105-108: `cache.set_transcription(&file_hash, &segments).await?`.
TranscribeAudioStored(t) ==
    /\ cmd[t].cpc = "ta_set"
    /\ pc[t] = "done"
    /\ IF ~result[t].ok THEN CommandReturns(t, Err(result[t].err))
       ELSE CommandReturns(t, Ok(cmd[t].computed.v))
    /\ UNCHANGED << cacheVars, taskVars >>

\* translate_batch, lines 120-129, for one request (SegsA, no glossary).
TranslateBatch(t) ==
    /\ CommandFree(t)
    /\ GetTranslation(t,
           CacheKeyName(
               generate_translation_cache_key(SegsA, << >>, French, Formal).val))
    /\ cmd' = [cmd EXCEPT ![t] =
                  [name |-> "translate_batch", cpc |-> "tb_get",
                   computed |-> None, result |-> Pending]]

\* Lines 129-132: `cache.get_translation(&cache_key).await?`.
TranslateBatchGot(t) ==
    /\ cmd[t].cpc = "tb_get"
    /\ pc[t] = "done"
    /\ IF ~result[t].ok THEN CommandReturns(t, Err(result[t].err))
       ELSE IF result[t].val.some THEN CommandReturns(t, Ok(result[t].val.v))
       ELSE cmd' = [cmd EXCEPT ![t].cpc = "tb_remote"]
    /\ UNCHANGED << cacheVars, taskVars >>

\* Lines 134-205: the API key, the request, the response and
\* parse_translation_response; any of them may fail.
TranslateBatchRemoteFails(t) ==
    /\ cmd[t].cpc = "tb_remote"
    /\ CommandReturns(t, Err("OpenAI"))
    /\ UNCHANGED << cacheVars, taskVars >>

\* Lines 204-215: the translations are parsed (the glossary is empty, so
\* apply_glossary is not run) and handed to set_translation.
TranslateBatchRemote(t, tr) ==
    /\ cmd[t].cpc = "tb_remote"
    /\ SetTranslation(t, key[t], tr)
    /\ cmd' = [cmd EXCEPT ![t].cpc = "tb_set", ![t].computed = Some(tr)]

\* Lines 215-218: `cache.set_translation(&cache_key, &translations).await?`.
TranslateBatchStored(t) ==
    /\ cmd[t].cpc = "tb_set"
    /\ pc[t] = "done"
    /\ IF ~result[t].ok THEN CommandReturns(t, Err(result[t].err))
       ELSE CommandReturns(t, Ok(cmd[t].computed.v))
    /\ UNCHANGED << cacheVars, taskVars >>

\* --------------------------------------- project documents and segments
\* A ProjectFile of a project with its subtitle segments, and a project
\* with files.
ProjectFileEntry(id, segs) ==
    [id |-> id, name |-> "a.mp4", file_type |-> "Video",
     path |-> "/docs/demo/video/a.mp4", duration |-> None,
     subtitle_segments |-> segs, created_at |-> to_rfc3339(0),
     updated_at |-> to_rfc3339(0)]
ProjectOf(id, fs, glossary, updated) ==
    [Project(id, glossary, updated) EXCEPT !.files = fs]

\* str::trim on a sequence of characters.
RECURSIVE TrimStart(_)
TrimStart(str) ==
    IF str # << >> /\ Head(str) = " " THEN TrimStart(Tail(str)) ELSE str
RECURSIVE TrimEnd(_)
TrimEnd(str) ==
    IF str # << >> /\ str[Len(str)] = " "
    THEN TrimEnd(SubSeq(str, 1, Len(str) - 1)) ELSE str
Trim(str) == TrimEnd(TrimStart(str))
unwrap_or(o, default) == IF o.some THEN o.v ELSE default

\* ai.rs, parse_whisper_response: ids count from 1, a missing start or end
\* is 0, the text is trimmed, the duration is end - start.
RECURSIVE ParseWhisperItems(_, _)
ParseWhisperItems(raw, i) ==
    IF raw = << >> THEN << >>
    ELSE << Segment(i, unwrap_or(raw[1].start, 0), unwrap_or(raw[1].end, 0),
                    Trim(unwrap_or(raw[1].text, << >>))) >>
            \o ParseWhisperItems(Tail(raw), i + 1)
parse_whisper_response(response) ==
    IF ~response.segments.some THEN Err("no segments")
    ELSE Ok(ParseWhisperItems(response.segments.v, 1))

\* Responses of the transcription service.
RawSegment(s, e, txt) == [start |-> s, end |-> e, text |-> txt]
WhisperResponses ==
    {[segments |-> None],
     [segments |-> Some(<< RawSegment(Some(0), Some(1500), Some(<< " ", "h", "i", " " >>)) >>)],
     [segments |-> Some(<< RawSegment(Some(0), Some(1500), Some(<< "h", "i" >>)),
                           RawSegment(Some(1500), None, None) >>)],
     [segments |-> Some(<< RawSegment(None, Some(700), Some(<< "o" >>)) >>)]}

\* SegmentUpdates of update_subtitle_segment.
SegmentUpdates(text, translation, start, end) ==
    [text |-> text, translation |-> translation, start |-> start, end |-> end]
UpdatesOffered ==
    {SegmentUpdates(None, None, None, None),
     SegmentUpdates(Some(<< "y" >>), None, None, None),
     SegmentUpdates(None, Some(<< "z" >>), None, None),
     SegmentUpdates(None, None, Some(2000), None),
     SegmentUpdates(None, None, None, Some(1000)),
     SegmentUpdates(Some(<< "y" >>), None, Some(500), Some(3000))}

\* The update that keeps the stored duration when the end moves.
ApplyUpdatesStaleDuration(segment, updates) ==
    LET s1 == IF updates.text.some
              THEN [segment EXCEPT !.text = updates.text.v] ELSE segment
        s2 == IF updates.translation.some
              THEN [s1 EXCEPT !.translation = Some(updates.translation.v)] ELSE s1
        s3 == IF updates.start.some
              THEN [s2 EXCEPT !.start = updates.start.v,
                              !.duration = s2.end - updates.start.v]
              ELSE s2
    IN  IF updates.end.some THEN [s3 EXCEPT !.end = updates.end.v] ELSE s3

\* project.rs, lines 127-140: the four optional updates, in order.
ApplyUpdates(segment, updates) ==
    LET s1 == IF updates.text.some
              THEN [segment EXCEPT !.text = updates.text.v] ELSE segment
        s2 == IF updates.translation.some
              THEN [s1 EXCEPT !.translation = Some(updates.translation.v)] ELSE s1
        s3 == IF updates.start.some
              THEN [s2 EXCEPT !.start = updates.start.v,
                              !.duration = s2.end - updates.start.v]
              ELSE s2
    IN  IF updates.end.some
        THEN [s3 EXCEPT !.end = updates.end.v,
                        !.duration = updates.end.v - s3.start]
        ELSE s3

\* iter().find / iter_mut().find: the position of the first element with
\* the id, 0 when there is none.
FirstWithId(items, id) ==
    IF \E i \in 1..Len(items) : items[i].id = id
    THEN CHOOSE i \in 1..Len(items) :
            /\ items[i].id = id
            /\ \A j \in 1..(i - 1) : items[j].id # id
    ELSE 0

\* Project::load_from_file, model.rs lines 79-90.
load_from_file(c) ==
    IF ~c.exists THEN Err("project file not found")
    ELSE from_str(c, ProjectFields)

\* update_subtitle_segment, lines 121-122: the call and its load.
UpdateSubtitleSegment(t, id, file_id, segment_id, updates) ==
    /\ Begin(t, "update_subtitle_segment", id,
             [file_id |-> file_id, segment_id |-> segment_id,
              updates |-> updates], "us_load")
    /\ content' = [content EXCEPT ![t] = Absent]
    /\ nowv' = [nowv EXCEPT ![t] = 0]
    /\ UNCHANGED << cacheVars, cmd >>

\* Lines 122-151: load, find the file and the segment, update, stamp; a
\* load that fails or a segment that is not found is an error.
UpdateSubtitleSegmentLoad(t) ==
    /\ pc[t] = "us_load"
    /\ LET loaded == load_from_file(files[ProjectJson(key[t])])
           project == loaded.val
           f == FirstWithId(project.files, arg[t].file_id)
           segs == project.files[f].subtitle_segments
           g == FirstWithId(segs.v, arg[t].segment_id)
           updated ==
               [project EXCEPT
                   !.files[f].subtitle_segments.v[g] =
                       ApplyUpdates(segs.v[g], arg[t].updates),
                   !.files[f].updated_at = to_rfc3339(now),
                   !.updated_at = to_rfc3339(now)]
       IN  IF ~loaded.ok THEN Finish(t, Err(loaded.err)) /\ UNCHANGED content
           ELSE IF f = 0 \/ ~segs.some \/ g = 0
           THEN Finish(t, Err("segment not found")) /\ UNCHANGED content
           ELSE /\ content' = [content EXCEPT ![t] = to_string(updated)]
                /\ Goto(t, "us_open")
    /\ UNCHANGED << cacheVars, cmd, op, key, arg, nowv >>

\* Line 145, Project::save_to_file (model.rs 65-77): fs::write in two steps.
UpdateSubtitleSegmentOpen(t) ==
    /\ WriteOpen(t, "us_open", ProjectJson(key[t]), "us_write")
    /\ UNCHANGED << cmd, now, ticks, memory_cache, lock, op, key, arg, content,
                    nowv, lastSet, everSet >>

UpdateSubtitleSegmentWrite(t) ==
    /\ pc[t] = "us_write"
    /\ \/ /\ files' = [files EXCEPT ![ProjectJson(key[t])] = content[t]]
          /\ Finish(t, Ok("unit"))
       \/ /\ UNCHANGED files
          /\ Finish(t, Err("io: write"))
    /\ UNCHANGED << cmd, now, ticks, memory_cache, lock, op, key, arg, content,
                    nowv, lastSet, everSet >>

\* ------------------------------------------- update_recent_projects
\* A path is the sequence of its components; Path::file_name is the last.
MaxRecent == 10
RecentFields == {"items"}
RecentProject(path, at) ==
    [path |-> path,
     name |-> IF path = << >> THEN "Untitled" ELSE path[Len(path)],
     last_opened |-> at]
\* Lines 166-171: the list in the file; a text that does not parse is the
\* empty list (unwrap_or_default).
RecentRead(c) ==
    IF ~c.exists THEN << >>
    ELSE IF from_str(c, RecentFields).ok THEN c.value.items ELSE << >>
retain(projects, path) == SelectSeq(projects, LAMBDA q : q.path # path)
truncate(projects, n) ==
    IF Len(projects) > n THEN SubSeq(projects, 1, n) ELSE projects

\* The list that grows without the retain.
RecentUpdatedKeepingOld(projects, path, at) ==
    truncate(<< RecentProject(path, at) >> \o projects, MaxRecent)

\* Lines 173-188.
RecentUpdated(projects, path, at) ==
    truncate(<< RecentProject(path, at) >> \o retain(projects, path), MaxRecent)

UpdateRecentProjects(t, path) ==
    /\ Begin(t, "update_recent_projects", path, NoArg, "ur_read")
    /\ content' = [content EXCEPT ![t] = Absent]
    /\ nowv' = [nowv EXCEPT ![t] = 0]
    /\ UNCHANGED << now, ticks, memory_cache, lock, files, lastSet, everSet >>

\* Lines 166-190: read, update, serialize.
UpdateRecentProjectsRead(t) ==
    /\ pc[t] = "ur_read"
    /\ arg' = [arg EXCEPT ![t] = [read |-> RecentRead(files[RecentFile])]]
    /\ nowv' = [nowv EXCEPT ![t] = now]
    /\ content' = [content EXCEPT ![t] =
          to_string([items |->
              RecentUpdated(RecentRead(files[RecentFile]), key[t],
                            to_rfc3339(now))])]
    /\ Goto(t, "ur_open")
    /\ UNCHANGED << cacheVars, cmd, op, key >>

\* Line 191, fs::write in two steps.
UpdateRecentProjectsOpen(t) ==
    /\ WriteOpen(t, "ur_open", RecentFile, "ur_write")
    /\ UNCHANGED << cmd, now, ticks, memory_cache, lock, op, key, arg, content,
                    nowv, lastSet, everSet >>

UpdateRecentProjectsWrite(t) ==
    /\ pc[t] = "ur_write"
    /\ \/ /\ files' = [files EXCEPT ![RecentFile] = content[t]]
          /\ Finish(t, Ok("unit"))
       \/ /\ UNCHANGED files
          /\ Finish(t, Err("io: write"))
    /\ UNCHANGED << cmd, now, ticks, memory_cache, lock, op, key, arg, content,
                    nowv, lastSet, everSet >>

\* ------------------------ update_glossary / add_glossary_entry (project.rs)
UpdateGlossary(t, id, entries) ==
    /\ Begin(t, "update_glossary", id, entries, "ug_load")
    /\ content' = [content EXCEPT ![t] = Absent]
    /\ nowv' = [nowv EXCEPT ![t] = 0]
    /\ UNCHANGED << cacheVars, cmd >>

AddGlossaryEntry(t, id, entry) ==
    /\ Begin(t, "add_glossary_entry", id, entry, "ug_load")
    /\ content' = [content EXCEPT ![t] = Absent]
    /\ nowv' = [nowv EXCEPT ![t] = 0]
    /\ UNCHANGED << cacheVars, cmd >>

\* Lines 84-87 and 104-107: load, replace the glossary or push the entry,
\* stamp updated_at.  The snapshot cache is not touched.
GlossaryLoad(t) ==
    /\ pc[t] = "ug_load"
    /\ (op[t] = "add_glossary_entry"
          /\ load_from_file(files[ProjectJson(key[t])]).ok)
          => Len(files[ProjectJson(key[t])].value.glossary) < MaxGlossary
    /\ LET loaded == load_from_file(files[ProjectJson(key[t])])
           project == loaded.val
           glossary == IF op[t] = "update_glossary" THEN arg[t]
                       ELSE Append(project.glossary, arg[t])
       IN  IF ~loaded.ok THEN Finish(t, Err(loaded.err)) /\ UNCHANGED content
           ELSE /\ content' = [content EXCEPT ![t] =
                       to_string([project EXCEPT !.glossary = glossary,
                                                 !.updated_at = to_rfc3339(now)])]
                /\ Goto(t, "ug_open")
    /\ UNCHANGED << cacheVars, cmd, op, key, arg, nowv >>

\* Lines 89 and 109, Project::save_to_file.
GlossaryOpen(t) ==
    /\ WriteOpen(t, "ug_open", ProjectJson(key[t]), "ug_write")
    /\ UNCHANGED << cmd, now, ticks, memory_cache, lock, op, key, arg, content,
                    nowv, lastSet, everSet >>

GlossaryWrite(t) ==
    /\ pc[t] = "ug_write"
    /\ \/ /\ files' = [files EXCEPT ![ProjectJson(key[t])] = content[t]]
          /\ Finish(t, Ok("unit"))
       \/ /\ UNCHANGED files
          /\ Finish(t, Err("io: write"))
    /\ UNCHANGED << cmd, now, ticks, memory_cache, lock, op, key, arg, content,
                    nowv, lastSet, everSet >>

\* ------------------------ commands get_project_structure and open_project
ProjectStructure(project) == [project |-> project, files |-> project.files]

\* project.rs, line 28: the command asks the snapshot cache first.
GetProjectStructureCommand(t, id) ==
    /\ CommandFree(t)
    /\ GetProjectStructure(t, id)
    /\ cmd' = [cmd EXCEPT ![t] =
                  [name |-> "get_project_structure", cpc |-> "gs_get",
                   computed |-> None, result |-> Pending]]

\* Lines 28-34: a snapshot found is returned as it is.
GetProjectStructureGot(t) ==
    /\ cmd[t].cpc = "gs_get"
    /\ pc[t] = "done"
    /\ IF ~result[t].ok THEN CommandReturns(t, Err(result[t].err))
       ELSE IF result[t].val.some
       THEN CommandReturns(t, Ok(ProjectStructure(result[t].val.v)))
       ELSE cmd' = [cmd EXCEPT ![t].cpc = "gs_load"]
    /\ UNCHANGED << cacheVars, taskVars >>

\* Lines 36-53: load the document, then store the snapshot.
GetProjectStructureLoad(t) ==
    /\ cmd[t].cpc = "gs_load"
    /\ LET loaded == load_from_file(files[ProjectJson(key[t])])
       IN  IF ~loaded.ok
           THEN /\ CommandReturns(t, Err(loaded.err))
                /\ UNCHANGED << cacheVars, taskVars >>
           ELSE /\ CacheProjectStructure(t, key[t], loaded.val)
                /\ cmd' = [cmd EXCEPT ![t].cpc = "gs_cache",
                                      ![t].computed = Some(loaded.val)]

\* Lines 53-55: `cache.cache_project_structure(..).await?`.
GetProjectStructureStored(t) ==
    /\ cmd[t].cpc = "gs_cache"
    /\ pc[t] = "done"
    /\ IF ~result[t].ok THEN CommandReturns(t, Err(result[t].err))
       ELSE CommandReturns(t, Ok(ProjectStructure(cmd[t].computed.v)))
    /\ UNCHANGED << cacheVars, taskVars >>

\* files.rs, lines 14-23: load the document and store the snapshot.
OpenProject(t, id) ==
    /\ CommandFree(t)
    /\ LET loaded == load_from_file(files[ProjectJson(id)])
       IN  IF ~loaded.ok
           THEN /\ cmd' = [cmd EXCEPT ![t] =
                             [name |-> "open_project", cpc |-> "returned",
                              computed |-> None, result |-> Err(loaded.err)]]
                /\ UNCHANGED << cacheVars, taskVars >>
           ELSE /\ CacheProjectStructure(t, loaded.val.id, loaded.val)
                /\ cmd' = [cmd EXCEPT ![t] =
                             [name |-> "open_project", cpc |-> "op_cache",
                              computed |-> Some(loaded.val), result |-> Pending]]

\* Lines 23-24: the snapshot is stored, the recent list is next.
OpenProjectStored(t) ==
    /\ cmd[t].cpc = "op_cache"
    /\ pc[t] = "done"
    /\ IF ~result[t].ok
       THEN CommandReturns(t, Err(result[t].err)) /\ UNCHANGED << cacheVars, taskVars >>
       ELSE /\ UpdateRecentProjects(t, cmd[t].computed.v.path)
            /\ cmd' = [cmd EXCEPT ![t].cpc = "op_recent"]

\* Lines 24-27.
OpenProjectRecorded(t) ==
    /\ cmd[t].cpc = "op_recent"
    /\ pc[t] = "done"
    /\ IF ~result[t].ok THEN CommandReturns(t, Err(result[t].err))
       ELSE CommandReturns(t, Ok(cmd[t].computed.v))
    /\ UNCHANGED << cacheVars, taskVars >>

\* ------------------------------------------------------------ environment
\* Time passes.
Tick(d) ==
    /\ ticks < MaxTicks
    /\ ticks' = ticks + 1
    /\ now' = now + d
    /\ UNCHANGED << cmd, memory_cache, lock, files, taskVars, lastSet, everSet >>

\* The application exits and starts again (main.rs builds a new Cache over
\* the same directory): the memory index is empty, the files stay, and a
\* call cut short leaves what it had written.
Restart ==
    /\ \E t \in Tasks : pc[t] # "idle"
    /\ memory_cache' = [h \in Digests |-> None]
    /\ lock' = NoTask
    /\ pc' = [t \in Tasks |-> "idle"]
    /\ op' = [t \in Tasks |-> "-"]
    /\ key' = [t \in Tasks |-> NoKey]
    /\ arg' = [t \in Tasks |-> NoArg]
    /\ content' = [t \in Tasks |-> Absent]
    /\ nowv' = [t \in Tasks |-> 0]
    /\ result' = [t \in Tasks |-> Pending]
    /\ lastSet' = [h \in Digests |-> None]
    /\ cmd' = [t \in Tasks |-> NoCommand]
    /\ UNCHANGED << now, ticks, files, everSet >>

\* The steps of a running call of the transcription methods.
TranscriptionStep(t) ==
    \/ GetTranscriptionLock1(t)
    \/ GetTranscriptionCheck(t)
    \/ GetTranscriptionExists(t)
    \/ GetTranscriptionRead(t)
    \/ GetTranscriptionRemove(t)
    \/ GetTranscriptionLock2(t)
    \/ GetTranscriptionInsert(t)
    \/ SetTranscriptionOpen(t)
    \/ SetTranscriptionWrite(t)
    \/ SetTranscriptionLock(t)
    \/ SetTranscriptionInsert(t)

\* The steps of a running call of the translation methods.
TranslationStep(t) ==
    \/ GetTranslationExists(t)
    \/ GetTranslationRead(t)
    \/ GetTranslationRemove(t)
    \/ SetTranslationOpen(t)
    \/ SetTranslationWrite(t)

\* The steps of a running call of the translation and snapshot methods.
DurableOnlyStep(t) ==
    \/ TranslationStep(t)
    \/ CacheProjectStructureOpen(t)
    \/ CacheProjectStructureWrite(t)
    \/ GetProjectStructureExists(t)
    \/ GetProjectStructureRead(t)

Next ==
    \/ \E t \in Tasks : GetTranscription(t, "d1")
           /\ UNCHANGED cmd
    \/ \E t \in Tasks, s \in SegLists : SetTranscription(t, "d1", s)
           /\ UNCHANGED cmd
    \/ \E t \in Tasks : TranscriptionStep(t)
    \/ \E d \in TickDeltas : Tick(d)
    \/ Restart

Spec == Init /\ [][Next]_vars

\* The snapshot methods alone, both tasks on one project.
NextSnapshot ==
    \/ \E t \in Tasks : GetProjectStructure(t, "p1")
           /\ UNCHANGED cmd
    \/ \E t \in Tasks, u \in SnapshotStamps(now) :
           CacheProjectStructure(t, "p1", Project("p1", << >>, u))
           /\ UNCHANGED cmd
    \/ \E t \in Tasks : CacheProjectStructureOpen(t)
    \/ \E t \in Tasks : CacheProjectStructureWrite(t)
    \/ \E t \in Tasks : GetProjectStructureExists(t)
    \/ \E t \in Tasks : GetProjectStructureRead(t)
    \/ \E d \in TickDeltas : Tick(d)
    \/ Restart

SpecSnapshot == Init /\ [][NextSnapshot]_vars

\* Every method of the Cache: one task on the transcription methods, the
\* other on the translation and snapshot methods.
NextStore ==
    \/ GetTranscription("t1", "d1")
           /\ UNCHANGED cmd
    \/ SetTranscription("t1", "d1", SegsA)
           /\ UNCHANGED cmd
    \/ GetTranslation("t2", "k1")
           /\ UNCHANGED cmd
    \/ \E tr \in TransLists : SetTranslation("t2", "k1", tr)
           /\ UNCHANGED cmd
    \/ GetProjectStructure("t2", "p1")
           /\ UNCHANGED cmd
    \/ CacheProjectStructure("t2", "p1", Project("p1", << >>, to_rfc3339(now)))
           /\ UNCHANGED cmd
    \/ TranscriptionStep("t1")
    \/ DurableOnlyStep("t2")
    \/ Tick(30 * Day)
    \/ Restart

SpecStore == Init /\ [][NextStore]_vars

\* The two commands of ai.rs: the first task transcribes, the second
\* translates.
CommandStep(t) ==
    \/ TranscribeAudioGot(t)
    \/ TranscribeAudioRemoteFails(t)
    \/ \E segs \in SegLists : TranscribeAudioRemote(t, segs)
    \/ TranscribeAudioStored(t)
    \/ TranslateBatchGot(t)
    \/ TranslateBatchRemoteFails(t)
    \/ \E tr \in TransLists : TranslateBatchRemote(t, tr)
    \/ TranslateBatchStored(t)

NextCommands ==
    \/ \E path \in MediaPaths : TranscribeAudio("t1", path)
    \/ TranslateBatch("t2")
    \/ \E t \in Tasks : CommandStep(t)
    \/ TranscriptionStep("t1")
    \/ TranslationStep("t2")
    \/ \E d \in TickDeltas : Tick(d)
    \/ Restart

SpecCommands == Init /\ [][NextCommands]_vars

\* The key derivation alone: each task derives the key of any request.
NextKey ==
    \E t \in Tasks, segs \in KeySegLists, glossary \in Glossaries,
       target_language \in Languages, style_prompt \in Styles :
        GenerateTranslationCacheKey(t, segs, glossary, target_language,
                                    style_prompt)

SpecKey == Init /\ [][NextKey]_vars

\* The segments of a project: the project document holds one file with the
\* segments parsed from a response of the transcription service; one task
\* makes any of the updates, the other moves the start of the first segment.
InitSegments ==
    /\ now = 0
    /\ ticks = 0
    /\ memory_cache = [h \in Digests |-> None]
    /\ lock = NoTask
    /\ \E response \in WhisperResponses :
          /\ parse_whisper_response(response).ok
          /\ files = [f \in FileNames |->
                IF f = ProjectJson("p1")
                THEN to_string(ProjectOf("p1",
                         << ProjectFileEntry("f1",
                                Some(parse_whisper_response(response).val)) >>,
                         << >>, to_rfc3339(0)))
                ELSE Absent]
    /\ pc = [t \in Tasks |-> "idle"]
    /\ op = [t \in Tasks |-> "-"]
    /\ key = [t \in Tasks |-> NoKey]
    /\ arg = [t \in Tasks |-> NoArg]
    /\ content = [t \in Tasks |-> Absent]
    /\ nowv = [t \in Tasks |-> 0]
    /\ result = [t \in Tasks |-> Pending]
    /\ lastSet = [h \in Digests |-> None]
    /\ everSet = [h \in Digests |-> FALSE]
    /\ cmd = [t \in Tasks |-> NoCommand]

NextSegments ==
    \/ \E segment_id \in {1, 9}, updates \in UpdatesOffered :
          UpdateSubtitleSegment("t1", "p1", "f1", segment_id, updates)
    \/ UpdateSubtitleSegment("t2", "p1", "f1", 1,
                              SegmentUpdates(None, None, Some(2000), None))
    \/ \E t \in Tasks : UpdateSubtitleSegmentLoad(t)
    \/ \E t \in Tasks : UpdateSubtitleSegmentOpen(t)
    \/ \E t \in Tasks : UpdateSubtitleSegmentWrite(t)

SpecSegments == InitSegments /\ [][NextSegments]_vars

\* A project and its snapshot: one task opens the project and asks for its
\* structure, the other edits its glossary.
InitProject ==
    /\ now = 0
    /\ ticks = 0
    /\ memory_cache = [h \in Digests |-> None]
    /\ lock = NoTask
    /\ files = [f \in FileNames |->
                   IF f = ProjectJson("p1")
                   THEN to_string(ProjectOf("p1", << >>, << >>, to_rfc3339(0)))
                   ELSE Absent]
    /\ pc = [t \in Tasks |-> "idle"]
    /\ op = [t \in Tasks |-> "-"]
    /\ key = [t \in Tasks |-> NoKey]
    /\ arg = [t \in Tasks |-> NoArg]
    /\ content = [t \in Tasks |-> Absent]
    /\ nowv = [t \in Tasks |-> 0]
    /\ result = [t \in Tasks |-> Pending]
    /\ lastSet = [h \in Digests |-> None]
    /\ everSet = [h \in Digests |-> FALSE]
    /\ cmd = [t \in Tasks |-> NoCommand]

SnapshotStep(t) ==
    \/ CacheProjectStructureOpen(t)
    \/ CacheProjectStructureWrite(t)
    \/ GetProjectStructureExists(t)
    \/ GetProjectStructureRead(t)

RecentStep(t) ==
    \/ UpdateRecentProjectsRead(t)
    \/ UpdateRecentProjectsOpen(t)
    \/ UpdateRecentProjectsWrite(t)

NextProject ==
    \/ OpenProject("t1", "p1")
    \/ OpenProjectStored("t1")
    \/ OpenProjectRecorded("t1")
    \/ GetProjectStructureCommand("t1", "p1")
    \/ GetProjectStructureGot("t1")
    \/ GetProjectStructureLoad("t1")
    \/ GetProjectStructureStored("t1")
    \/ SnapshotStep("t1")
    \/ RecentStep("t1")
    \/ \E entries \in Glossaries : UpdateGlossary("t2", "p1", entries)
    \/ \E entry \in {GlossaryEntry(<< "g" >>, << "d", "o", "g" >>, << "c", "h", "i", "e", "n" >>)} :
          AddGlossaryEntry("t2", "p1", entry)
    \/ GlossaryLoad("t2")
    \/ GlossaryOpen("t2")
    \/ GlossaryWrite("t2")
    \/ Tick(Hour)

SpecProject == InitProject /\ [][NextProject]_vars

\* The recent list alone.  The file starts absent, or holds the list ten
\* earlier openings left; the calls come one after the other, each for one
\* of two listed and two new projects.
PathNames == << "a", "b", "c", "d", "e", "f", "g", "h", "i", "j", "k", "l" >>
RecentPath(i) == << "projects", PathNames[i] >>
RecentList(n) == [i \in 1..n |-> RecentProject(RecentPath(i), to_rfc3339(0))]
InitRecent ==
    /\ now = 0
    /\ ticks = 0
    /\ memory_cache = [h \in Digests |-> None]
    /\ lock = NoTask
    /\ \E c \in {Absent, to_string([items |-> RecentList(MaxRecent)])} :
          files = [f \in FileNames |-> IF f = RecentFile THEN c ELSE Absent]
    /\ pc = [t \in Tasks |-> "idle"]
    /\ op = [t \in Tasks |-> "-"]
    /\ key = [t \in Tasks |-> NoKey]
    /\ arg = [t \in Tasks |-> NoArg]
    /\ content = [t \in Tasks |-> Absent]
    /\ nowv = [t \in Tasks |-> 0]
    /\ result = [t \in Tasks |-> Pending]
    /\ lastSet = [h \in Digests |-> None]
    /\ everSet = [h \in Digests |-> FALSE]
    /\ cmd = [t \in Tasks |-> NoCommand]

NextRecent ==
    \/ \E i \in {1, 5, MaxRecent + 1, MaxRecent + 2} :
          UpdateRecentProjects("t1", RecentPath(i)) /\ UNCHANGED cmd
    \/ RecentStep("t1")
    \/ Tick(Hour)

SpecRecent == InitRecent /\ [][NextRecent]_vars

\* Concurrent calls on pairwise disjoint digests: each task makes one call
\* of get_transcription or set_transcription on a digest of its own.  The
\* cache starts in any state earlier calls can have left: per digest, no
\* file, an empty file, a fresh entry or an entry 31 days old, with or
\* without a memory entry.
DigestOf(t) == IF t = "t1" THEN "d1" ELSE "d2"
EntryStates(h) ==
    {Absent, Truncated,
     to_string(TranscriptionCacheEntry(h, SegsA, to_rfc3339(0))),
     to_string(TranscriptionCacheEntry(h, SegsA, to_rfc3339(0 - 31 * Day)))}
InitDisjoint ==
    /\ now = 0
    /\ ticks = 0
    /\ memory_cache \in [Digests -> {None, Some(SegsA)}]
    /\ lock = NoTask
    /\ \E e1 \in EntryStates("d1"), e2 \in EntryStates("d2") :
          files = [f \in FileNames |->
                      IF f = TranscribeFile("d1") THEN e1
                      ELSE IF f = TranscribeFile("d2") THEN e2 ELSE Absent]
    /\ pc = [t \in Tasks |-> "idle"]
    /\ op = [t \in Tasks |-> "-"]
    /\ key = [t \in Tasks |-> NoKey]
    /\ arg = [t \in Tasks |-> NoArg]
    /\ content = [t \in Tasks |-> Absent]
    /\ nowv = [t \in Tasks |-> 0]
    /\ result = [t \in Tasks |-> Pending]
    /\ lastSet = [h \in Digests |-> None]
    /\ everSet = [h \in Digests |-> TRUE]
    /\ cmd = [t \in Tasks |-> NoCommand]

NextDisjoint ==
    \/ \E t \in Tasks : pc[t] = "idle" /\ GetTranscription(t, DigestOf(t))
           /\ UNCHANGED cmd
    \/ \E t \in Tasks, s \in SegLists :
          pc[t] = "idle" /\ SetTranscription(t, DigestOf(t), s)
           /\ UNCHANGED cmd
    \/ \E t \in Tasks : TranscriptionStep(t)
    \/ \E d \in TickDeltas : Tick(d)

\* A call is straight-line code on a runtime thread: it takes its next step
\* unless it waits for the Mutex.
SpecDisjoint ==
    InitDisjoint /\ [][NextDisjoint]_vars
        /\ \A t \in Tasks : WF_vars(TranscriptionStep(t))

\* ================================================================= claims
\* A step of task t's call that leaves position `at` (not the restart of
\* the application, which sends every task to "idle").
Leaves(t, at) == pc[t] = at /\ pc'[t] \notin {at, "idle"}
\* The step in which task t's call of `method` returns.
Returns(t, method) ==
    op[t] = method /\ pc[t] \notin {"idle", "done"} /\ pc'[t] = "done"

Getters == {"get_transcription", "get_translation", "get_project_structure"}
FileOf(t) ==
    CASE op[t] \in {"get_transcription", "set_transcription"} -> TranscribeFile(key[t])
      [] op[t] \in {"get_translation", "set_translation"} -> TranslateFile(key[t])
      [] OTHER -> ProjectFile(key[t])
FieldsOf(t) ==
    CASE op[t] = "get_transcription" -> TranscriptionFields
      [] op[t] = "get_translation" -> TranslationFields
      [] OTHER -> ProjectFields
\* The timestamp text of the entry a getter read.
StampOf(t) ==
    IF op[t] = "get_project_structure"
    THEN content[t].value.updated_at ELSE content[t].value.created_at
\* The getter read a file whose text deserializes, timestamp included.
ReadEntry(t) ==
    /\ content[t].exists
    /\ content[t].json
    /\ DOMAIN content[t].value = FieldsOf(t)
    /\ StampOf(t).rfc3339
\* The age, in seconds, of the entry a getter read, at the time it read the
\* clock.
AgeOf(t) == nowv[t] - StampOf(t).t
\* The policies in seconds: 30 days, 60 minutes.
MaxAgeOf(t) ==
    IF op[t] = "get_project_structure" THEN MaxAgeMinutes * Minute
    ELSE MaxAgeDays * Day

\* C1: a get_transcription(d) that looks d up while the last write to d's
\* entry is a set_transcription(d, S) that returned Ok returns Some(S); and
\* a get_transcription(d) that returns before any set_transcription(d)
\* has begun returns None.
C1_RoundTrip ==
    [][\A t \in Tasks :
          /\ (Leaves(t, "gt_check") /\ lastSet[key[t]].some)
                => (pc'[t] = "done" /\ result'[t] = Ok(Some(lastSet[key[t]].v)))
          /\ (Returns(t, "get_transcription") /\ ~everSet[key[t]])
                => result'[t] = Ok(None)]_vars

\* C1's case: a set of SegsB has returned Ok, nothing has written the entry
\* since, and a get has returned Some(SegsB) without reading the file.
C1_Witness ==
    \E t \in Tasks, u \in Tasks :
        /\ pc[u] = "done" /\ op[u] = "set_transcription"
        /\ arg[u] = SegsB /\ result[u] = Ok("unit")
        /\ lastSet[key[u]] = Some(SegsB)
        /\ pc[t] = "done" /\ op[t] = "get_transcription" /\ key[t] = key[u]
        /\ result[t] = Ok(Some(SegsB)) /\ ~content[t].exists

\* C4: whenever the memory index holds digest d, the file
\* transcribe_<d>.json exists.
C4_MemoryImpliesDurable ==
    \A h \in Digests : memory_cache[h].some => files[TranscribeFile(h)].exists

\* C5: with each call on a digest of its own, every call that has begun
\* returns; a step of a call changes neither tier's entry of any other
\* digest; and when a call has returned, its digest's entry is what the call
\* alone makes it: after set Ok the file is the text it wrote and memory holds
\* its segments, after get Some(S) memory holds S (and the file is the one it
\* read, if it read one), after get None there is no file and no memory entry.
C5_DisjointDigests ==
    /\ [][\A t \in Tasks :
             pc'[t] # pc[t]
                => \A h \in Digests \ {DigestOf(t)} :
                      /\ memory_cache'[h] = memory_cache[h]
                      /\ files'[TranscribeFile(h)] = files[TranscribeFile(h)]]_vars
    /\ [](\A t \in Tasks :
            pc[t] = "done" =>
               LET h == key[t]
                   f == files[TranscribeFile(h)]
               IN  /\ h = DigestOf(t)
                   /\ (op[t] = "set_transcription" /\ result[t].ok)
                         => (memory_cache[h] = Some(arg[t]) /\ f = content[t])
                   /\ (op[t] = "get_transcription" /\ result[t].ok
                          /\ result[t].val.some)
                         => /\ memory_cache[h] = result[t].val
                            /\ content[t].exists => f = content[t]
                   /\ (op[t] = "get_transcription" /\ result[t] = Ok(None))
                         => (~f.exists /\ memory_cache[h] = None))
    /\ \A t \in Tasks : (pc[t] \notin {"idle", "done"}) ~> (pc[t] = "done")

\* C5's case: both calls have returned, a set on d1 and a get on d2 that
\* removed d2's expired file, and d1's entry is the set's in both tiers.
C5_Witness ==
    /\ pc["t1"] = "done" /\ op["t1"] = "set_transcription"
    /\ result["t1"] = Ok("unit") /\ arg["t1"] = SegsB
    /\ memory_cache["d1"] = Some(SegsB)
    /\ files[TranscribeFile("d1")] = content["t1"]
    /\ pc["t2"] = "done" /\ op["t2"] = "get_transcription"
    /\ result["t2"] = Ok(None) /\ content["t2"].exists
    /\ ~files[TranscribeFile("d2")].exists

\* C6: a get_transcription(d) that finds d in the memory index returns the
\* memory value in that step, having read neither the file nor the clock,
\* and leaves the files and the memory index as they were.
C6_MemoryHitImmediate ==
    [][\A t \in Tasks :
          (Leaves(t, "gt_check") /\ memory_cache[key[t]].some)
             => /\ pc'[t] = "done"
                /\ result'[t] = Ok(Some(memory_cache[key[t]].v))
                /\ ~content'[t].exists
                /\ files' = files
                /\ memory_cache' = memory_cache]_vars

\* C6's case: a get served from memory although the entry on disk was
\* written more than 30 days before, or is missing, or is not JSON.
C6_Witness ==
    \E t \in Tasks :
        /\ pc[t] = "done" /\ op[t] = "get_transcription"
        /\ result[t].ok /\ result[t].val.some /\ ~content[t].exists
        /\ memory_cache[key[t]] = result[t].val
        /\ LET f == files[TranscribeFile(key[t])]
           IN  /\ f.exists /\ f.json
               /\ now - f.value.created_at.t > MaxAgeDays * Day

\* C7: a get_transcription(d) that misses the memory index goes on to the
\* file; if it returns Some(S), S is the segments of the entry it read, the
\* entry is not expired by the 30-day policy (in whole days, as the code
\* counts), and the step that returns leaves S in the memory index for d; if it
\* returns None, the file was missing or the entry it read was expired, and
\* no step of the call but the insert changes the memory index.
C7_DurablePath ==
    [][\A t \in Tasks :
          /\ (Leaves(t, "gt_check") /\ ~memory_cache[key[t]].some)
                => (pc'[t] = "gt_exists" /\ memory_cache' = memory_cache)
          /\ (Returns(t, "get_transcription") /\ pc[t] # "gt_check"
                /\ result'[t].ok /\ result'[t].val.some)
                => /\ ReadEntry(t)
                   /\ result'[t].val.v = content[t].value.segments
                   /\ num_days(AgeOf(t)) <= MaxAgeDays
                   /\ memory_cache'[key[t]] = result'[t].val
          /\ (Returns(t, "get_transcription") /\ result'[t] = Ok(None))
                => /\ memory_cache' = memory_cache
                   /\ \/ pc[t] = "gt_exists" /\ ~files[TranscribeFile(key[t])].exists
                      \/ /\ pc[t] = "gt_remove" /\ ReadEntry(t)
                         /\ num_days(AgeOf(t)) > MaxAgeDays
          /\ (op[t] = "get_transcription" /\ pc'[t] # pc[t] /\ pc'[t] # "idle"
                /\ pc[t] # "gt_insert")
                => memory_cache' = memory_cache
          /\ (Leaves(t, "gt_exists") /\ ~files[TranscribeFile(key[t])].exists)
                => (pc'[t] = "done" /\ result'[t] = Ok(None))
          /\ (Leaves(t, "gt_read") /\ ReadEntry(t)')
                => pc'[t] = (IF num_days(AgeOf(t)') > MaxAgeDays
                             THEN "gt_remove" ELSE "gt_lock2")
          /\ Leaves(t, "gt_remove")
                => (pc'[t] = "done" /\ result'[t] = Ok(None))
          /\ Leaves(t, "gt_lock2") => pc'[t] = "gt_insert"
          /\ Leaves(t, "gt_insert")
                => /\ pc'[t] = "done"
                   /\ result'[t] = Ok(Some(content[t].value.segments))]_vars

\* C7's case: a get that missed the memory index has read a valid entry and
\* returned it, and the memory index holds it.
C7_Witness ==
    \E t \in Tasks :
        /\ pc[t] = "done" /\ op[t] = "get_transcription"
        /\ content[t].exists /\ result[t].ok /\ result[t].val.some
        /\ memory_cache[key[t]] = result[t].val
        /\ result[t].val.v = SegsB

\* C2: a getter of any kind that has read an entry whose timestamp is older
\* than the policy's max age (30 days, 60 minutes) returns None and the file
\* is gone when it returns; a getter that finds no file returns None, not an
\* error.
C2_ExpiredReadRemoves ==
    [][\A t \in Tasks :
          /\ ((\E m \in Getters : Returns(t, m)) /\ ReadEntry(t)'
                /\ AgeOf(t)' > MaxAgeOf(t)')
                => (result'[t] = Ok(None) /\ ~files'[FileOf(t)].exists)
          /\ ((\E m \in Getters : Returns(t, m)) /\ ~content'[t].exists
                /\ ~files[FileOf(t)].exists)
                => result'[t] = Ok(None)]_vars

\* C3: a getter of any kind that has read a file whose text does not
\* deserialize (not JSON, or a timestamp that does not parse) returns
\* Ok(None).
C3_CorruptIsMiss ==
    \A t \in Tasks :
        (pc[t] = "done" /\ op[t] \in Getters /\ content[t].exists
            /\ ~ReadEntry(t))
           => result[t] = Ok(None)

\* C8: no step of a get_translation, set_translation,
\* cache_project_structure or get_project_structure call changes the memory
\* index or takes its lock; and what get_translation returns is decided by
\* the file translate_<key>.json and the clock: None when there is no file,
\* the translations of an entry not expired by the 30-day policy (in whole
\* days), an error for any other text, None after reading an expired entry.
DurableOnlyMethods ==
    {"get_translation", "set_translation", "cache_project_structure",
     "get_project_structure"}
TranslationOutcome(c, n) ==
    IF ~c.exists THEN Err("io: not found")
    ELSE IF ~c.json THEN Err("serde_json")
    ELSE IF DOMAIN c.value # TranslationFields THEN Err("serde_json")
    ELSE IF ~c.value.created_at.rfc3339 THEN Err("chrono parse")
    ELSE Ok(Some(c.value.translations))
C8_NoMemoryTier ==
    [][\A t \in Tasks :
          /\ (op'[t] \in DurableOnlyMethods /\ pc'[t] # pc[t])
                => (memory_cache' = memory_cache /\ lock' = lock)
          /\ (Returns(t, "get_translation") /\ pc[t] = "gl_exists")
                => (~files[FileOf(t)].exists /\ result'[t] = Ok(None))
          /\ (Returns(t, "get_translation") /\ pc[t] = "gl_read")
                => /\ result'[t] = TranslationOutcome(files[FileOf(t)], now)
                   /\ result'[t].ok =>
                         num_days(now - files[FileOf(t)].value.created_at.t)
                             <= MaxAgeDays
          /\ (Returns(t, "get_translation") /\ pc[t] = "gl_remove")
                => /\ result'[t] = Ok(None)
                   /\ num_days(AgeOf(t)) > MaxAgeDays]_vars

\* C8's case: the memory index holds a transcription while a translation
\* has been stored and read back and a snapshot has been stored.
C8_Witness ==
    /\ memory_cache["d1"] = Some(SegsA)
    /\ pc["t2"] = "done" /\ op["t2"] = "get_translation"
    /\ result["t2"] = Ok(Some(TransB))
    /\ files[ProjectFile("p1")].exists /\ files[ProjectFile("p1")].json

\* C9: a get_project_structure that has read a snapshot whose updated_at
\* lies 61 minutes or more before the clock returns None, whenever the
\* snapshot was written.
C9_SnapshotOwnTimestamp ==
    \A t \in Tasks :
        (pc[t] = "done" /\ op[t] = "get_project_structure" /\ ReadEntry(t)
            /\ AgeOf(t) >= 61 * Minute)
           => result[t] = Ok(None)

\* C9's case: no time has passed since the application started, one task has
\* stored a snapshot whose updated_at is 61 minutes in the past, and the
\* other has read that snapshot and got None.
C9_Witness ==
    \E t \in Tasks, u \in Tasks :
        /\ ticks = 0
        /\ pc[u] = "done" /\ op[u] = "cache_project_structure"
        /\ result[u] = Ok("unit")
        /\ pc[t] = "done" /\ op[t] = "get_project_structure"
        /\ content[t] = content[u] /\ ReadEntry(t)
        /\ AgeOf(t) = 61 * Minute
        /\ result[t] = Ok(None)

\* C10: a transcribe_audio or translate_batch whose remote computation
\* succeeded returns the computed segments or translations, also when the
\* cache write failed.
C10_ResultSurvivesWriteFailure ==
    \A t \in Tasks :
        (cmd[t].cpc = "returned" /\ cmd[t].computed.some)
           => cmd[t].result = Ok(cmd[t].computed.v)

\* C11: set_transcription(d, S) returns Ok only from the insert, which
\* leaves S in the memory index for d, and reaches the insert only through a
\* write that left the file of d holding the entry of S; an open or a write
\* that fails makes the call return the I/O error.
C11_OkMeansBothTiers ==
    [][\A t \in Tasks :
          /\ (Returns(t, "set_transcription") /\ result'[t].ok)
                => (pc[t] = "st_insert" /\ memory_cache'[key[t]] = Some(arg[t]))
          /\ Leaves(t, "st_open")
                => \/ pc'[t] = "st_write"
                   \/ pc'[t] = "done" /\ result'[t] = Err("io: open")
          /\ Leaves(t, "st_write")
                => \/ /\ pc'[t] = "st_lock"
                      /\ files'[TranscribeFile(key[t])] = content[t]
                      /\ content[t].json
                      /\ content[t].value.segments = arg[t]
                      /\ content[t].value.file_hash = key[t]
                   \/ /\ pc'[t] = "done" /\ result'[t] = Err("io: write")
                      /\ memory_cache' = memory_cache
          /\ Leaves(t, "st_lock") => pc'[t] = "st_insert"
          /\ Leaves(t, "st_insert")
                => (pc'[t] = "done" /\ result'[t] = Ok("unit"))]_vars

\* C11's case: one set has returned Ok with its segments in the file and in
\* the memory index, and another set, whose write failed, has returned the
\* I/O error.
C11_Witness ==
    \E t \in Tasks, u \in Tasks :
        /\ pc[t] = "done" /\ op[t] = "set_transcription"
        /\ result[t] = Ok("unit")
        /\ memory_cache[key[t]] = Some(arg[t])
        /\ files[TranscribeFile(key[t])] = content[t]
        /\ pc[u] = "done" /\ op[u] = "set_transcription"
        /\ result[u] = Err("io: open")

\* The number of the four inputs in which two requests differ.
Inputs == {"segments", "glossary", "target_language", "style_prompt"}
DifferingInputs(r1, r2) == {i \in Inputs : r1[i] # r2[i]}
KeyDerived(t) == pc[t] = "done" /\ op[t] = "generate_translation_cache_key"

\* C12: two requests that differ in exactly one of segments, glossary,
\* target language and style prompt get different hash inputs, and so
\* different keys; the same request gets the same key.
C12_OneInputChangesKey ==
    \A t \in Tasks, u \in Tasks :
        (KeyDerived(t) /\ KeyDerived(u))
           => /\ Cardinality(DifferingInputs(arg[t], arg[u])) = 1
                    => result[t].val.sha256 # result[u].val.sha256
              /\ arg[t] = arg[u] => result[t] = result[u]

\* C12's case: the keys of two requests that differ in the style prompt
\* alone have been derived.
C12_Witness ==
    /\ KeyDerived("t1") /\ KeyDerived("t2")
    /\ DifferingInputs(arg["t1"], arg["t2"]) = {"style_prompt"}
    /\ arg["t1"].segments = SegsB
    /\ result["t1"].val # result["t2"].val

\* C18: two requests that differ in at least one of the four inputs get
\* different hash inputs, and so different keys.
C18_KeyInjective ==
    \A t \in Tasks, u \in Tasks :
        (KeyDerived(t) /\ KeyDerived(u) /\ arg[t] # arg[u])
           => result[t].val.sha256 # result[u].val.sha256

\* C13: a command is at its remote call only when its cache get has returned
\* a miss; a command that returned the value of a cache hit made no remote
\* call and began no cache write; and a cache write of a command carries the
\* value parsed from its successful remote response, under the key of its
\* get.
Setters == {"set_transcription", "set_translation"}
C13_CacheAside ==
    \A t \in Tasks :
        /\ cmd[t].cpc \in {"ta_remote", "tb_remote"}
              => /\ pc[t] = "done"
                 /\ op[t] \in {"get_transcription", "get_translation"}
                 /\ result[t] = Ok(None)
                 /\ ~cmd[t].computed.some
        /\ (cmd[t].cpc = "returned" /\ cmd[t].result.ok /\ ~cmd[t].computed.some)
              => /\ pc[t] = "done"
                 /\ op[t] \in {"get_transcription", "get_translation"}
                 /\ result[t] = Ok(Some(cmd[t].result.val))
        /\ cmd[t].cpc \in {"ta_get", "tb_get"}
              => (op[t] \notin Setters /\ ~cmd[t].computed.some)
        /\ (op[t] \in Setters /\ pc[t] # "idle")
              => /\ cmd[t].computed.some
                 /\ arg[t] = cmd[t].computed.v
                 /\ key[t] = (IF op[t] = "set_transcription" THEN "d1" ELSE "k1")
                 /\ cmd[t].cpc \in {"ta_set", "tb_set", "returned"}

\* C13's case: a transcribe_audio has returned the segments of a cache hit,
\* and a translate_batch has missed, translated, stored and returned.
C13_Witness ==
    /\ cmd["t1"].cpc = "returned" /\ cmd["t1"].name = "transcribe_audio"
    /\ ~cmd["t1"].computed.some /\ cmd["t1"].result = Ok(SegsB)
    /\ cmd["t2"].cpc = "returned" /\ cmd["t2"].name = "translate_batch"
    /\ cmd["t2"].computed = Some(TransB) /\ cmd["t2"].result = Ok(TransB)
    /\ files[TranslateFile("k1")].exists /\ files[TranslateFile("k1")].json

\* C14: a task holds the Mutex of the memory index only at the map lookup
\* or at a map insert, never at a file operation, at the remote call or
\* after its call has returned, with or without an error.
MapOperations == {"gt_check", "gt_insert", "st_insert"}
C14_LockScope ==
    \A t \in Tasks :
        /\ lock = t => pc[t] \in MapOperations
        /\ pc[t] \in MapOperations => lock = t
        /\ lock \in Tasks \cup {NoTask}

\* C14's case: one task holds the Mutex at its insert while the other,
\* without it, is about to read the file.
C14_Witness ==
    \E t \in Tasks, u \in Tasks :
        /\ lock = t /\ pc[t] = "st_insert"
        /\ pc[u] = "gt_read"

\* C15: when two set_transcription calls on one digest with different
\* segment lists have both returned Ok, the file of the digest and its memory
\* entry hold the same segment list.
C15_TiersAgree ==
    (/\ \A t \in Tasks :
           /\ pc[t] = "done" /\ op[t] = "set_transcription"
           /\ result[t] = Ok("unit")
     /\ key["t1"] = key["t2"]
     /\ arg["t1"] # arg["t2"])
        => LET h == key["t1"]
               f == files[TranscribeFile(h)]
           IN  /\ f.exists /\ f.json
               /\ memory_cache[h] = Some(f.value.segments)

\* C16: a getter of any kind that has read an entry from the file returns
\* None whenever the entry's age exceeds the policy's max age (30 days, 60
\* minutes) by any amount, and the entry's value when the age is at most the
\* max age.
C16_ExactThreshold ==
    \A t \in Tasks :
        (pc[t] = "done" /\ op[t] \in Getters /\ ReadEntry(t))
           => IF AgeOf(t) > MaxAgeOf(t)
              THEN result[t] = Ok(None)
              ELSE result[t].ok /\ result[t].val.some

\* The segments of every file of a project document.
SegmentsOf(project) ==
    UNION {{project.files[i].subtitle_segments.v[j] :
               j \in 1..Len(project.files[i].subtitle_segments.v)} :
           i \in {k \in 1..Len(project.files) :
                     project.files[k].subtitle_segments.some}}
DurationHolds(g) == g.duration = g.end - g.start

\* C17: every segment parse_whisper_response produces has duration = end -
\* start; every segment of a project document saved by update_subtitle_segment
\* has duration = end - start; and the update changes start and end to the
\* values given and nothing else of the three, so that an update of text or
\* translation alone leaves start, end and duration as they were.
C17_DurationInvariant ==
    /\ [](\A response \in WhisperResponses :
             parse_whisper_response(response).ok
                => \A i \in 1..Len(parse_whisper_response(response).val) :
                      DurationHolds(parse_whisper_response(response).val[i]))
    /\ [](\A id \in ProjectIds :
             (files[ProjectJson(id)].exists /\ files[ProjectJson(id)].json)
                => \A g \in SegmentsOf(files[ProjectJson(id)].value) :
                      DurationHolds(g))
    /\ [][\A t \in Tasks :
             (pc[t] = "us_load" /\ pc'[t] = "us_open")
                => LET old == files[ProjectJson(key[t])].value.files[1]
                                  .subtitle_segments.v[arg[t].segment_id]
                       new == content'[t].value.files[1]
                                  .subtitle_segments.v[arg[t].segment_id]
                       u == arg[t].updates
                   IN  /\ DurationHolds(new)
                       /\ new.start = unwrap_or(u.start, old.start)
                       /\ new.end = unwrap_or(u.end, old.end)
                       /\ new.text = unwrap_or(u.text, old.text)
                       /\ (~u.start.some /\ ~u.end.some)
                             => new.duration = old.duration
                       /\ new.id = old.id]_vars

\* C17's case: after updates that moved the start and then the end of a
\* segment, the saved segment ends before it starts and its duration is the
\* difference.
C17_Witness ==
    /\ files[ProjectJson("p1")].exists /\ files[ProjectJson("p1")].json
    /\ \E t \in Tasks :
          /\ pc[t] = "done" /\ op[t] = "update_subtitle_segment"
          /\ result[t] = Ok("unit")
          /\ arg[t].updates.end = Some(1000)
    /\ \E g \in SegmentsOf(files[ProjectJson("p1")].value) :
          g.start = 2000 /\ g.end = 1000 /\ g.duration = 0 - 1000

\* C19: a get_project_structure command that is served from the snapshot
\* cache while the project document is whole returns the document's
\* content, whatever saves came before the read of the snapshot.
C19_SnapshotNeverStale ==
    [][\A t \in Tasks :
          (/\ cmd[t].name = "get_project_structure"
           /\ pc[t] = "gp_read" /\ pc'[t] = "done"
           /\ result'[t].ok /\ result'[t].val.some
           /\ files[ProjectJson(key[t])].exists
           /\ files[ProjectJson(key[t])].json)
             => result'[t].val.v = files[ProjectJson(key[t])].value]_vars

\* The recent list a whole file holds.
RecentItems == files[RecentFile].value.items
RecentWhole ==
    /\ files[RecentFile].exists /\ files[RecentFile].json
    /\ DOMAIN files[RecentFile].value = RecentFields
IsPrefix(a, b) == Len(a) <= Len(b) /\ a = SubSeq(b, 1, Len(a))

\* C20: the recent list in the file holds at most 10 entries, no two with
\* one path, in the order of their last_opened, latest first; and the write
\* of an update_recent_projects(p) leaves p first, followed by the other
\* entries of the list the call read, in the order they had, cut to 10.
C20_RecentList ==
    /\ [](RecentWhole
            => /\ Len(RecentItems) <= MaxRecent
               /\ \A i \in 1..Len(RecentItems), j \in 1..Len(RecentItems) :
                     /\ i # j => RecentItems[i].path # RecentItems[j].path
                     /\ i < j => RecentItems[i].last_opened.t
                                    >= RecentItems[j].last_opened.t)
    /\ [][\A t \in Tasks :
             (pc[t] = "ur_write" /\ pc'[t] = "done" /\ result'[t].ok)
                => /\ RecentWhole'
                   /\ RecentItems'[1].path = key[t]
                   /\ RecentItems'[1].last_opened = to_rfc3339(nowv[t])
                   /\ IsPrefix(Tail(RecentItems'),
                               SelectSeq(arg[t].read,
                                         LAMBDA q : q.path # key[t]))
                   /\ Len(RecentItems')
                         = IF \E i \in 1..Len(arg[t].read) :
                                 arg[t].read[i].path = key[t]
                           THEN Len(arg[t].read)
                           ELSE IF Len(arg[t].read) < MaxRecent
                           THEN Len(arg[t].read) + 1 ELSE MaxRecent]_vars

\* C20's case: to a full list an eleventh project was added, which dropped
\* the last entry, and then the fifth project was opened again and moved to
\* the front.
C20_Witness ==
    /\ RecentWhole
    /\ Len(RecentItems) = MaxRecent
    /\ RecentItems[1].path = RecentPath(5)
    /\ RecentItems[2].path = RecentPath(MaxRecent + 1)
    /\ RecentItems[3].path = RecentPath(1)
    /\ RecentItems[MaxRecent].path = RecentPath(MaxRecent - 1)
    /\ RecentItems[1].last_opened.t > RecentItems[2].last_opened.t
====
